---- MODULE Spec2Model ----
(***************************************************************************)
(* Fixed-size chunking with conditional gzip, a manifest, and the          *)
(* verify / rebuild / stats readers (chunker.py, compression.py,           *)
(* manifest.py).                                                           *)
(*                                                                         *)
(* The file system is a partial function from paths to files.  A file is   *)
(* either a byte sequence or a JSON document (the manifest).  One source   *)
(* file exists initially; chunk_file turns it into a chunk set; the        *)
(* environment may then alter the chunk set (flip a byte of a chunk file,  *)
(* delete a chunk file, edit the manifest); verify, rebuild and stats      *)
(* read it.  Every operation is one atomic step: the program is            *)
(* single-threaded and synchronous.                                        *)
(***************************************************************************)
EXTENDS Integers, Sequences, FiniteSets, TLC

VARIABLES
    fs,       \* the file system: [path -> file], DOMAIN fs = existing paths
    ret,      \* outcome of the operation that ran last (op = "none" after an environment step)
    chunked,  \* the chunk_file call that produced the chunk set (done = FALSE before)
    edits,    \* environment edits since chunk_file: [n |-> count, last |-> the edit while it is the only one]
    cc        \* the compress_conditional call under test: [raw, level, gain, res]

vars == <<fs, ret, chunked, edits, cc>>

----------------------------------------------------------------------------
(* Bounds *)

MaxFileLen   == 3    \* source files have 0..MaxFileLen bytes
MaxChunkSize == 2    \* chunk_size ranges over 1..MaxChunkSize
MaxEdits     == 1    \* environment edits applied to one chunk set
MaxRawLen    == 4    \* raw inputs of the compress_conditional specification

(* Program constants and value domains *)

GzMagic  == 31       \* first byte of a gzip stream (0x1f)
HashBase == 32       \* digests are numerals in this base; every byte is below it
GainDen  == 4        \* min_gain_ratio is written as g / GainDen

Byte == {0, 1}       \* byte values of source files

CompressionLevels == {6}             \* levels chunk_file is called with
AllLevels         == {0, 6}          \* levels compress_conditional is called with
MinGainRatios     == {0}             \* ratios chunk_file is called with, as numerators over GainDen
AllGainRatios     == (0 - 1) .. (GainDen + 1)   \* ratios compress_conditional is called with

RECURSIVE SeqsUpTo(_, _)
SeqsUpTo(S, n) ==
    IF n = 0 THEN {<<>>}
    ELSE LET shorter == SeqsUpTo(S, n - 1)
         IN  shorter \cup {Append(s, b) : s \in {t \in shorter : Len(t) = n - 1}, b \in S}

----------------------------------------------------------------------------
(* hashing.sha256_hex and hashlib.sha256(): an ideal (collision-free)      *)
(* digest.  The digest of a byte sequence is the numeral with leading      *)
(* digit 1 followed by the bytes, in base HashBase.                        *)

RECURSIVE sha256_hex(_)
sha256_hex(bytes) ==
    IF bytes = <<>> THEN 1
    ELSE sha256_hex(SubSeq(bytes, 1, Len(bytes) - 1)) * HashBase + bytes[Len(bytes)]

\* hashlib.sha256(): the accumulator is the digest state, update appends
sha256_stream_init == 1

RECURSIVE hasher_update(_, _)
hasher_update(h, bytes) ==
    IF bytes = <<>> THEN h
    ELSE hasher_update(h * HashBase + Head(bytes), Tail(bytes))

hexdigest(h) == h

----------------------------------------------------------------------------
(* gzip.compress / gzip.decompress: a run-length code behind a magic byte. *)
(* payload = <<GzMagic, t1, t2, ...>>, the token 2 * n + b standing for a   *)
(* run of n >= 1 bytes b; level 0 stores every byte as a run of one,       *)
(* higher levels merge equal neighbours.                                   *)

Token(b, n)  == 2 * n + b
TokenByte(t) == t % 2
TokenRun(t)  == t \div 2

RECURSIVE RunLength(_, _)
RunLength(raw, level) ==
    IF raw = <<>> THEN <<>>
    ELSE LET rest == RunLength(Tail(raw), level)
         IN  IF level > 0 /\ rest # <<>> /\ TokenByte(rest[1]) = Head(raw)
             THEN <<Token(Head(raw), TokenRun(rest[1]) + 1)>> \o Tail(rest)
             ELSE <<Token(Head(raw), 1)>> \o rest

gzip_compress(raw, level) == <<GzMagic>> \o RunLength(raw, level)

RECURSIVE Repeat(_, _)
Repeat(b, n) == IF n <= 0 THEN <<>> ELSE <<b>> \o Repeat(b, n - 1)

RECURSIVE Expand(_)
Expand(tokens) ==
    IF tokens = <<>> THEN <<>>
    ELSE Repeat(TokenByte(Head(tokens)), TokenRun(Head(tokens))) \o Expand(Tail(tokens))

\* a payload gzip.decompress accepts
GzipValid(payload) ==
    /\ Len(payload) >= 1
    /\ payload[1] = GzMagic
    /\ \A i \in 2 .. Len(payload) : TokenRun(payload[i]) >= 1

gzip_decompress(payload) == Expand(Tail(payload))

----------------------------------------------------------------------------
(* compression.py *)

\* int(x) of a rational num / den, den > 0: truncation toward zero
IntTrunc(num, den) ==
    IF num >= 0 THEN num \div den ELSE 0 - ((0 - num) \div den)

\* faulty variant: strict comparison
KeepCompressedStrict(comp_len, raw_len, gain) ==
    comp_len < IntTrunc(raw_len * (GainDen - gain), GainDen)

\* the '<=' of compression.py line 37
KeepCompressed(comp_len, raw_len, gain) ==
    comp_len <= IntTrunc(raw_len * (GainDen - gain), GainDen)

compress_conditional(raw, level, gain) ==
    IF raw = <<>>
    THEN [stored_as |-> "raw", payload |-> raw]
    ELSE LET comp == gzip_compress(raw, level)
         IN  IF KeepCompressed(Len(comp), Len(raw), gain)
             THEN [stored_as |-> "gzip", payload |-> comp]
             ELSE [stored_as |-> "raw", payload |-> raw]

\* faulty variant: the gzip branch hands the payload back undecoded
decompressNoGunzip(payload, stored_as) ==
    IF stored_as \in {"raw", "gzip"} THEN [ok |-> TRUE, raw |-> payload, exc |-> ""]
    ELSE [ok |-> FALSE, raw |-> <<>>, exc |-> "ValueError"]

\* decompress: [ok, raw, exc]
decompress(payload, stored_as) ==
    IF stored_as = "raw" THEN [ok |-> TRUE, raw |-> payload, exc |-> ""]
    ELSE IF stored_as = "gzip"
    THEN IF GzipValid(payload)
         THEN [ok |-> TRUE, raw |-> gzip_decompress(payload), exc |-> ""]
         ELSE [ok |-> FALSE, raw |-> <<>>, exc |-> "BadGzipFile"]
    ELSE [ok |-> FALSE, raw |-> <<>>, exc |-> "ValueError"]

----------------------------------------------------------------------------
(* Paths and files *)

ParentDir == "d"                       \* src.parent
OutDir    == "o"                       \* where rebuild writes
NoIndex   == 0 - 1

PlainName(stem, ext) == [stem |-> stem, idx |-> NoIndex, ext |-> ext]

\* f"{src.stem}.part{idx:06d}.{ext}"
PartName(stem, idx, ext) == [stem |-> stem, idx |-> idx, ext |-> ext]

ManifestName == PlainName("manifest", "json")
SourceNames  == {PlainName("f", "bin"), ManifestName}
OutName      == PlainName("out", "bin")

Path(dir, name) == [dir |-> dir, name |-> name]

SourcePaths == {Path(ParentDir, n) : n \in SourceNames}
OutPath     == Path(OutDir, OutName)

\* src.parent / f"chunks_{src.stem}"
DefaultFolder(src) == "d/chunks_" \o src.name.stem

NoDoc == [version |-> 0, original_filename |-> OutName, chunk_size |-> 0,
          compression_level |-> 0, min_gain_ratio |-> 0, created_at_unix |-> 0,
          chunks |-> <<>>, sha256_file_raw |-> 0, size_file_raw |-> 0,
          size_file_stored_total |-> 0]

BytesFile(bytes) == [kind |-> "bytes", bytes |-> bytes, doc |-> NoDoc]
JsonFile(doc)    == [kind |-> "json", bytes |-> <<>>, doc |-> doc]

Exists(fsys, p) == p \in DOMAIN fsys

\* Path.write_bytes / Path.write_text: create or overwrite
WriteFile(fsys, p, file) ==
    [q \in DOMAIN fsys \cup {p} |-> IF q = p THEN file ELSE fsys[q]]

RemoveFile(fsys, p) == [q \in DOMAIN fsys \ {p} |-> fsys[q]]

----------------------------------------------------------------------------
(* manifest.py *)

ChunkEntry(index, filename, stored_as, size_raw, size_stored, sha_raw, sha_stored) ==
    [index |-> index, filename |-> filename, stored_as |-> stored_as,
     size_raw |-> size_raw, size_stored |-> size_stored,
     sha256_raw |-> sha_raw, sha256_stored |-> sha_stored]

ManifestPath(folder) == Path(folder, ManifestName)

write_manifest(fsys, folder, manifest) ==
    WriteFile(fsys, ManifestPath(folder), JsonFile(manifest))

\* read_manifest: [ok, mf, exc]
read_manifest(fsys, folder) ==
    IF ~Exists(fsys, ManifestPath(folder))
    THEN [ok |-> FALSE, mf |-> NoDoc, exc |-> "FileNotFoundError"]
    ELSE IF fsys[ManifestPath(folder)].kind # "json"
    THEN [ok |-> FALSE, mf |-> NoDoc, exc |-> "JSONDecodeError"]
    ELSE [ok |-> TRUE, mf |-> fsys[ManifestPath(folder)].doc, exc |-> ""]

----------------------------------------------------------------------------
(* chunker.chunk_file *)

Min(a, b) == IF a <= b THEN a ELSE b

\* faulty variant: the window is one byte too wide
ReadChunkWide(rest, chunk_size) == SubSeq(rest, 1, Min(chunk_size + 1, Len(rest)))

\* f.read(chunk_size) on the bytes not yet read
ReadChunk(rest, chunk_size) == SubSeq(rest, 1, Min(chunk_size, Len(rest)))

\* the while loop of chunk_file; st = [fsys, chunks, hasher, size_raw_total, size_stored_total]
RECURSIVE ChunkLoop(_, _, _, _, _, _, _, _)
ChunkLoop(rest, idx, stem, folder, chunk_size, level, gain, st) ==
    LET raw == ReadChunk(rest, chunk_size)
    IN  IF raw = <<>> THEN st
        ELSE LET res      == compress_conditional(raw, level, gain)
                 ext      == IF res.stored_as = "raw" THEN "raw" ELSE "gz"
                 filename == PartName(stem, idx, ext)
                 entry    == ChunkEntry(idx, filename, res.stored_as, Len(raw),
                                        Len(res.payload), sha256_hex(raw),
                                        sha256_hex(res.payload))
             IN  ChunkLoop(SubSeq(rest, Len(raw) + 1, Len(rest)), idx + 1, stem, folder,
                           chunk_size, level, gain,
                           [fsys              |-> WriteFile(st.fsys, Path(folder, filename),
                                                            BytesFile(res.payload)),
                            chunks            |-> Append(st.chunks, entry),
                            hasher            |-> hasher_update(st.hasher, raw),
                            size_raw_total    |-> st.size_raw_total + Len(raw),
                            size_stored_total |-> st.size_stored_total + Len(res.payload)])

\* the file system after chunk_file(src, out_dir=folder, ...) on an existing source
ChunkFileFs(fsys, src, folder, chunk_size, level, gain) ==
    LET st == ChunkLoop(fsys[src].bytes, 0, src.name.stem, folder, chunk_size, level, gain,
                        [fsys |-> fsys, chunks |-> <<>>, hasher |-> sha256_stream_init,
                         size_raw_total |-> 0, size_stored_total |-> 0])
        manifest == [version                |-> 1,
                     original_filename      |-> src.name,
                     chunk_size             |-> chunk_size,
                     compression_level      |-> level,
                     min_gain_ratio         |-> gain,
                     created_at_unix        |-> 0,
                     chunks                 |-> st.chunks,
                     sha256_file_raw        |-> hexdigest(st.hasher),
                     size_file_raw          |-> st.size_raw_total,
                     size_file_stored_total |-> st.size_stored_total]
    IN  write_manifest(st.fsys, folder, manifest)

----------------------------------------------------------------------------
(* chunker.verify *)

NoReason == [check |-> "", index |-> NoIndex, filename |-> OutName]

ChunkReason(check, c) == [check |-> check, index |-> c.index, filename |-> OutName]

\* faulty variant: the message names the manifest instead of the chunk file
MissingReasonManifest(c) ==
    [check |-> "missing", index |-> NoIndex, filename |-> ManifestName]

\* f"faltando: {c.filename}"
MissingReason(c) == [check |-> "missing", index |-> NoIndex, filename |-> c.filename]

VerifyFail(reason, examined) ==
    [outcome |-> "return", exc |-> "", ok |-> FALSE, reason |-> reason,
     examined |-> examined, chunks |-> 0, size_file_raw |-> 0,
     size_file_stored_total |-> 0, ratio |-> <<0, 1>>, min_gain_ratio |-> 0]

VerifyRaise(exc, examined) ==
    [outcome |-> "raise", exc |-> exc, ok |-> FALSE, reason |-> NoReason,
     examined |-> examined, chunks |-> 0, size_file_raw |-> 0,
     size_file_stored_total |-> 0, ratio |-> <<0, 1>>, min_gain_ratio |-> 0]

\* stored / raw as the pair <<numerator, denominator>>, 0.0 when raw is 0
Ratio(stored, raw) == IF raw # 0 THEN <<stored, raw>> ELSE <<0, 1>>

VerifyOk(mf, examined) ==
    [outcome |-> "return", exc |-> "", ok |-> TRUE, reason |-> NoReason,
     examined |-> examined, chunks |-> Len(mf.chunks),
     size_file_raw |-> mf.size_file_raw,
     size_file_stored_total |-> mf.size_file_stored_total,
     ratio |-> Ratio(mf.size_file_stored_total, mf.size_file_raw),
     min_gain_ratio |-> mf.min_gain_ratio]

\* the checks after the loop (chunker.py lines 156-170)
VerifyTotals(mf, hasher, total_raw, examined) ==
    IF total_raw # mf.size_file_raw
    THEN VerifyFail([check |-> "total_size", index |-> NoIndex, filename |-> OutName], examined)
    ELSE IF hexdigest(hasher) # mf.sha256_file_raw
    THEN VerifyFail([check |-> "file_hash", index |-> NoIndex, filename |-> OutName], examined)
    ELSE VerifyOk(mf, examined)

\* faulty variant: the stored bytes are not compared with the manifest
StoredHashSkipped(payload, c) == TRUE

\* the comparison of chunker.py line 142
StoredHashOk(payload, c) == sha256_hex(payload) = c.sha256_stored

\* the for loop of verify from list position i on; examined lists the c.index visited
RECURSIVE VerifyLoop(_, _, _, _, _, _, _)
VerifyLoop(fsys, folder, mf, i, hasher, total_raw, examined) ==
    IF i > Len(mf.chunks) THEN VerifyTotals(mf, hasher, total_raw, examined)
    ELSE LET c    == mf.chunks[i]
             p    == Path(folder, c.filename)
             seen == Append(examined, c.index)
         IN  IF ~Exists(fsys, p) THEN VerifyFail(MissingReason(c), seen)
             ELSE LET payload == fsys[p].bytes
                  IN  IF ~StoredHashOk(payload, c)
                      THEN VerifyFail(ChunkReason("stored_hash", c), seen)
                      ELSE LET d == decompress(payload, c.stored_as)
                           IN  IF ~d.ok THEN VerifyRaise(d.exc, seen)
                               ELSE IF Len(d.raw) # c.size_raw
                               THEN VerifyFail(ChunkReason("raw_size", c), seen)
                               ELSE IF sha256_hex(d.raw) # c.sha256_raw
                               THEN VerifyFail(ChunkReason("raw_hash", c), seen)
                               ELSE VerifyLoop(fsys, folder, mf, i + 1,
                                               hasher_update(hasher, d.raw),
                                               total_raw + Len(d.raw), seen)

verify(fsys, folder) ==
    LET m == read_manifest(fsys, folder)
    IN  IF ~m.ok THEN VerifyRaise(m.exc, <<>>)
        ELSE VerifyLoop(fsys, folder, m.mf, 1, sha256_stream_init, 0, <<>>)

----------------------------------------------------------------------------
(* chunker.rebuild *)

\* the for loop of rebuild from list position i on: [exc, written, hasher]
\* (exc = "" when the loop ran to the end; written = the bytes sent to f_out)
RECURSIVE RebuildLoop(_, _, _, _, _, _)
RebuildLoop(fsys, folder, mf, i, hasher, written) ==
    IF i > Len(mf.chunks) THEN [exc |-> "", written |-> written, hasher |-> hasher]
    ELSE LET c    == mf.chunks[i]
             p    == Path(folder, c.filename)
             stop(exc) == [exc |-> exc, written |-> written, hasher |-> hasher]
         IN  IF ~Exists(fsys, p) THEN stop("FileNotFoundError")
             ELSE LET payload == fsys[p].bytes
                  IN  IF sha256_hex(payload) # c.sha256_stored
                      THEN stop("RuntimeError:sha256_stored")
                      ELSE LET d == decompress(payload, c.stored_as)
                           IN  IF ~d.ok THEN stop(d.exc)
                               ELSE IF Len(d.raw) # c.size_raw
                               THEN stop("RuntimeError:size_raw")
                               ELSE IF sha256_hex(d.raw) # c.sha256_raw
                               THEN stop("RuntimeError:sha256_raw")
                               ELSE RebuildLoop(fsys, folder, mf, i + 1,
                                                hasher_update(hasher, d.raw),
                                                written \o d.raw)

\* faulty variant: the file digest is not compared
RebuildTotalsNoHash(mf, hasher, bytes_written) ==
    IF bytes_written # mf.size_file_raw THEN "RuntimeError:size_file_raw" ELSE ""

\* the checks after the with block (chunker.py lines 118-122): the exception, "" for none
RebuildTotals(mf, hasher, bytes_written) ==
    IF bytes_written # mf.size_file_raw THEN "RuntimeError:size_file_raw"
    ELSE IF hexdigest(hasher) # mf.sha256_file_raw THEN "RuntimeError:sha256_file_raw"
    ELSE ""

\* rebuild: [exc, fsys]; the output is opened (truncated) after the manifest is read
rebuild(fsys, folder, out) ==
    LET m == read_manifest(fsys, folder)
    IN  IF ~m.ok THEN [exc |-> m.exc, fsys |-> fsys]
        ELSE LET opened == WriteFile(fsys, out, BytesFile(<<>>))
                 r      == RebuildLoop(opened, folder, m.mf, 1, sha256_stream_init, <<>>)
                 closed == WriteFile(opened, out, BytesFile(r.written))
             IN  IF r.exc # "" THEN [exc |-> r.exc, fsys |-> closed]
                 ELSE [exc |-> RebuildTotals(m.mf, r.hasher, Len(r.written)),
                       fsys |-> closed]

----------------------------------------------------------------------------
(* chunker.stats *)

RECURSIVE CountRaw(_)
CountRaw(chunks) ==
    IF chunks = <<>> THEN 0
    ELSE (IF Head(chunks).stored_as = "raw" THEN 1 ELSE 0) + CountRaw(Tail(chunks))

\* the stat() loop: [ok, total]; ok = FALSE when a stat() raises
RECURSIVE StoredActual(_, _, _)
StoredActual(fsys, folder, chunks) ==
    IF chunks = <<>> THEN [ok |-> TRUE, total |-> 0]
    ELSE LET p == Path(folder, Head(chunks).filename)
         IN  IF ~Exists(fsys, p) THEN [ok |-> FALSE, total |-> 0]
             ELSE LET rest == StoredActual(fsys, folder, Tail(chunks))
                  IN  [ok |-> rest.ok, total |-> Len(fsys[p].bytes) + rest.total]

StatsRaise(exc) ==
    [outcome |-> "raise", exc |-> exc, chunks_total |-> 0, chunks_raw |-> 0,
     chunks_gzip |-> 0, chunk_size |-> 0, size_file_raw |-> 0,
     size_file_stored_manifest |-> 0, size_file_stored_actual |-> 0, ratio |-> <<0, 1>>]

stats(fsys, folder) ==
    LET m == read_manifest(fsys, folder)
    IN  IF ~m.ok THEN StatsRaise(m.exc)
        ELSE LET mf     == m.mf
                 actual == StoredActual(fsys, folder, mf.chunks)
             IN  IF ~actual.ok THEN StatsRaise("FileNotFoundError")
                 ELSE [outcome |-> "return", exc |-> "",
                       chunks_total |-> Len(mf.chunks),
                       chunks_raw |-> CountRaw(mf.chunks),
                       chunks_gzip |-> Len(mf.chunks) - CountRaw(mf.chunks),
                       chunk_size |-> mf.chunk_size,
                       size_file_raw |-> mf.size_file_raw,
                       size_file_stored_manifest |-> mf.size_file_stored_total,
                       size_file_stored_actual |-> actual.total,
                       ratio |-> Ratio(actual.total, mf.size_file_raw)]

----------------------------------------------------------------------------
(* State machine *)

NoRet == [op |-> "none", folder |-> "", res |-> [outcome |-> "none", exc |-> ""]]

NotChunked == [done |-> FALSE, src |-> OutPath, srcBytes |-> <<>>, folder |-> "",
               chunk_size |-> 0, level |-> 0, gain |-> 0, mf |-> NoDoc]

NoEdits == [n |-> 0, last |-> [kind |-> "none", index |-> NoIndex]]

NoCall == [raw |-> <<>>, level |-> 0, gain |-> 0, called |-> FALSE,
           res |-> [stored_as |-> "", payload |-> <<>>]]

Edited(kind, index) ==
    [n    |-> edits.n + 1,
     last |-> IF edits.n = 0 THEN [kind |-> kind, index |-> index]
              ELSE [kind |-> "several", index |-> NoIndex]]

\* one source file exists, nothing else
Init ==
    /\ \E name \in SourceNames, bytes \in SeqsUpTo(Byte, MaxFileLen) :
          fs = [p \in {Path(ParentDir, name)} |-> BytesFile(bytes)]
    /\ ret = NoRet
    /\ chunked = NotChunked
    /\ edits = NoEdits
    /\ cc = NoCall

\* the folder a reader is pointed at: the chunk set, or the source's folder before there is one
Folders == IF chunked.done THEN {chunked.folder} ELSE {ParentDir}

\* chunk_file on a path that is not a file: FileNotFoundError, nothing written
ChunkFileNotFound ==
    /\ ~chunked.done
    /\ \E src \in SourcePaths :
          /\ ~Exists(fs, src)
          /\ ret' = [op |-> "chunk_file", folder |-> "",
                     res |-> [outcome |-> "raise", exc |-> "FileNotFoundError"]]
    /\ UNCHANGED <<fs, chunked, edits, cc>>

\* chunk_file(src, out_dir, chunk_size, compression_level, min_gain_ratio)
ChunkFile ==
    /\ ~chunked.done
    /\ \E src \in SourcePaths \cap DOMAIN fs,
          out_dir \in {"", ParentDir},
          chunk_size \in 1 .. MaxChunkSize,
          level \in CompressionLevels,
          gain \in MinGainRatios :
          LET folder == IF out_dir # "" THEN out_dir ELSE DefaultFolder(src)
              after  == ChunkFileFs(fs, src, folder, chunk_size, level, gain)
          IN  /\ fs[src].kind = "bytes"
              /\ fs' = after
              /\ ret' = [op |-> "chunk_file", folder |-> folder,
                         res |-> [outcome |-> "return", exc |-> "", before |-> fs]]
              /\ chunked' = [done |-> TRUE, src |-> src, srcBytes |-> fs[src].bytes,
                             folder |-> folder, chunk_size |-> chunk_size,
                             level |-> level, gain |-> gain,
                             mf |-> after[ManifestPath(folder)].doc]
              /\ edits' = NoEdits
    /\ UNCHANGED cc

Verify ==
    /\ \E folder \in Folders :
          ret' = [op |-> "verify", folder |-> folder, res |-> verify(fs, folder)]
    /\ UNCHANGED <<fs, chunked, edits, cc>>

Rebuild ==
    /\ \E folder \in Folders :
          LET r == rebuild(fs, folder, OutPath)
          IN  /\ fs' = r.fsys
              /\ ret' = [op |-> "rebuild", folder |-> folder,
                         res |-> [outcome |-> IF r.exc = "" THEN "return" ELSE "raise",
                                  exc |-> r.exc]]
    /\ UNCHANGED <<chunked, edits, cc>>

Stats ==
    /\ \E folder \in Folders :
          ret' = [op |-> "stats", folder |-> folder, res |-> stats(fs, folder)]
    /\ UNCHANGED <<fs, chunked, edits, cc>>

----------------------------------------------------------------------------
(* The environment: alterations of the chunk set between operations *)

CanEdit == chunked.done /\ edits.n < MaxEdits

FlipBit(b) == IF b % 2 = 0 THEN b + 1 ELSE b - 1

\* change one byte of the stored file of chunk k - 1
FlipByte ==
    /\ CanEdit
    /\ \E k \in 1 .. Len(chunked.mf.chunks) :
          LET p == Path(chunked.folder, chunked.mf.chunks[k].filename)
          IN  /\ Exists(fs, p)
              /\ \E pos \in 1 .. Len(fs[p].bytes) :
                    fs' = WriteFile(fs, p,
                             BytesFile([fs[p].bytes EXCEPT ![pos] = FlipBit(@)]))
              /\ edits' = Edited("flip", k - 1)
    /\ ret' = NoRet
    /\ UNCHANGED <<chunked, cc>>

\* delete the stored file of chunk k - 1
DeleteChunk ==
    /\ CanEdit
    /\ \E k \in 1 .. Len(chunked.mf.chunks) :
          LET p == Path(chunked.folder, chunked.mf.chunks[k].filename)
          IN  /\ Exists(fs, p)
              /\ fs' = RemoveFile(fs, p)
              /\ edits' = Edited("delete", k - 1)
    /\ ret' = NoRet
    /\ UNCHANGED <<chunked, cc>>

ManifestReadable == chunked.done /\ read_manifest(fs, chunked.folder).ok

CurrentManifest == fs[ManifestPath(chunked.folder)].doc

PutManifest(doc) == fs' = WriteFile(fs, ManifestPath(chunked.folder), JsonFile(doc))

\* rewrite one recorded value of the entry at list position i
EditManifestEntry ==
    /\ CanEdit
    /\ ManifestReadable
    /\ \E i \in 1 .. Len(CurrentManifest.chunks) :
          LET c == CurrentManifest.chunks[i]
              put(e) == PutManifest([CurrentManifest EXCEPT !.chunks[i] = e])
          IN  /\ \/ \E v \in {"raw", "gzip", "zip"} \ {c.stored_as} :
                       put([c EXCEPT !.stored_as = v])
                 \/ put([c EXCEPT !.size_raw = @ + 1])
                 \/ put([c EXCEPT !.sha256_stored = @ + 1])
                 \/ put([c EXCEPT !.sha256_raw = @ + 1])
              /\ edits' = Edited("manifest", c.index)
    /\ ret' = NoRet
    /\ UNCHANGED <<chunked, cc>>

\* rewrite a recorded file-level value
EditManifestTotals ==
    /\ CanEdit
    /\ ManifestReadable
    /\ \/ PutManifest([CurrentManifest EXCEPT !.size_file_raw = @ + 1])
       \/ PutManifest([CurrentManifest EXCEPT !.sha256_file_raw = @ + 1])
    /\ edits' = Edited("manifest", NoIndex)
    /\ ret' = NoRet
    /\ UNCHANGED <<chunked, cc>>

\* exchange two neighbouring entries of the chunks list
ReorderManifest ==
    /\ CanEdit
    /\ ManifestReadable
    /\ \E i \in 1 .. Len(CurrentManifest.chunks) - 1 :
          LET cs == CurrentManifest.chunks
          IN  PutManifest([CurrentManifest EXCEPT
                              !.chunks = [cs EXCEPT ![i] = cs[i + 1], ![i + 1] = cs[i]]])
    /\ edits' = Edited("reorder", NoIndex)
    /\ ret' = NoRet
    /\ UNCHANGED <<chunked, cc>>

Next ==
    \/ ChunkFile
    \/ ChunkFileNotFound
    \/ Verify
    \/ Rebuild
    \/ Stats
    \/ FlipByte
    \/ DeleteChunk
    \/ EditManifestEntry
    \/ EditManifestTotals
    \/ ReorderManifest

Spec == Init /\ [][Next]_vars

----------------------------------------------------------------------------
(* compress_conditional on its own: inputs drawn at Init, one call *)

InitCompress ==
    /\ fs = [p \in {Path(ParentDir, PlainName("f", "bin"))} |-> BytesFile(<<>>)]
    /\ ret = NoRet
    /\ chunked = NotChunked
    /\ edits = NoEdits
    /\ \E raw \in SeqsUpTo(Byte, MaxRawLen), level \in AllLevels,
          gain \in AllGainRatios :
          cc = [NoCall EXCEPT !.raw = raw, !.level = level, !.gain = gain]

CompressConditional ==
    /\ ~cc.called
    /\ cc' = [cc EXCEPT !.called = TRUE,
                        !.res = compress_conditional(cc.raw, cc.level, cc.gain)]
    /\ UNCHANGED <<fs, ret, chunked, edits>>

NextCompress == CompressConditional

SpecCompress == InitCompress /\ [][NextCompress]_vars

----------------------------------------------------------------------------
(* Properties *)

ReturnedFrom(op) == ret.op = op /\ ret.res.outcome = "return"

HasGzipChunk == \E i \in 1 .. Len(chunked.mf.chunks) : chunked.mf.chunks[i].stored_as = "gzip"

\* C1: chunk_file followed by rebuild on the resulting folder, the chunk set
\* untouched in between, completes without error and writes exactly the bytes
\* the source file had.
C1_RoundTrip ==
    (ret.op = "rebuild" /\ chunked.done /\ ret.folder = chunked.folder /\ edits.n = 0)
        => /\ ret.res.outcome = "return"
           /\ Exists(fs, OutPath)
           /\ fs[OutPath].kind = "bytes"
           /\ fs[OutPath].bytes = chunked.srcBytes

\* a rebuilt file of chunk_size + 1 bytes, two chunks, one of them stored as gzip
C1_Witness ==
    /\ ReturnedFrom("rebuild") /\ chunked.done /\ edits.n = 0
    /\ Len(chunked.srcBytes) = chunked.chunk_size + 1
    /\ Len(chunked.mf.chunks) = 2
    /\ HasGzipChunk
    /\ fs[OutPath].bytes = chunked.srcBytes

OneEdit(kind) == chunked.done /\ edits.n = 1 /\ edits.last.kind = kind

\* C2: after one byte of the stored file of chunk k was changed and nothing
\* else, verify returns ok = FALSE with the stored-hash reason naming index k,
\* and rebuild raises.
C2_TamperDetected ==
    /\ (ret.op = "verify" /\ OneEdit("flip"))
          => /\ ret.res.outcome = "return"
             /\ ~ret.res.ok
             /\ ret.res.reason.check = "stored_hash"
             /\ ret.res.reason.index = edits.last.index
    /\ (ret.op = "rebuild" /\ OneEdit("flip")) => ret.res.outcome = "raise"

\* verify reported a flipped byte in a chunk that is not the first one
C2_Witness ==
    /\ ret.op = "verify" /\ OneEdit("flip")
    /\ edits.last.index >= 1
    /\ ~ret.res.ok
    /\ ret.res.reason.check = "stored_hash"

\* <<0, 1, ..., k>>
UpTo(k) == [j \in 1 .. k + 1 |-> j - 1]

\* C3: after the stored file of chunk k was deleted and nothing else, verify
\* returns ok = FALSE with the missing-chunk reason carrying the filename (and
\* so the index) of chunk k, having examined chunks 0..k and none beyond.
C3_TruncationDetected ==
    (ret.op = "verify" /\ OneEdit("delete"))
        => /\ ret.res.outcome = "return"
           /\ ~ret.res.ok
           /\ ret.res.reason.check = "missing"
           /\ ret.res.reason.filename = chunked.mf.chunks[edits.last.index + 1].filename
           /\ ret.res.reason.filename.idx = edits.last.index
           /\ ret.res.examined = UpTo(edits.last.index)

\* verify reported a deleted chunk that has both a predecessor and a successor
C3_Witness ==
    /\ ret.op = "verify" /\ OneEdit("delete")
    /\ edits.last.index >= 1
    /\ edits.last.index + 1 < Len(chunked.mf.chunks)
    /\ ret.res.reason.check = "missing"

ReadableAt(folder) == read_manifest(fs, folder).ok

\* C4: whenever the manifest can be read and parsed, verify returns a
\* structured result (ok, or ok = FALSE with a reason) and raises nothing.
C4_VerifyNeverRaises ==
    (ret.op = "verify" /\ ReadableAt(ret.folder))
        => /\ ret.res.outcome = "return"
           /\ (ret.res.ok \/ ret.res.reason.check # "")

\* what one manifest entry yields when its chunk is checked on its own
ChunkPasses(folder, c) ==
    /\ Exists(fs, Path(folder, c.filename))
    /\ LET payload == fs[Path(folder, c.filename)].bytes
       IN  /\ sha256_hex(payload) = c.sha256_stored
           /\ decompress(payload, c.stored_as).ok
           /\ Len(decompress(payload, c.stored_as).raw) = c.size_raw
           /\ sha256_hex(decompress(payload, c.stored_as).raw) = c.sha256_raw

RECURSIVE ConcatRaw(_, _)
ConcatRaw(folder, chunks) ==
    IF chunks = <<>> THEN <<>>
    ELSE decompress(fs[Path(folder, Head(chunks).filename)].bytes, Head(chunks).stored_as).raw
             \o ConcatRaw(folder, Tail(chunks))

AllChecksPass(folder) ==
    LET mf == read_manifest(fs, folder).mf
    IN  /\ \A i \in 1 .. Len(mf.chunks) : ChunkPasses(folder, mf.chunks[i])
        /\ Len(ConcatRaw(folder, mf.chunks)) = mf.size_file_raw
        /\ sha256_hex(ConcatRaw(folder, mf.chunks)) = mf.sha256_file_raw

\* C5: rebuild returns normally exactly when every chunk of the manifest
\* passes the stored-hash, raw-size and raw-hash checks and the totals match;
\* the output then is the concatenation of the chunks' raw bytes in manifest
\* order, of length size_file_raw and digest sha256_file_raw.  Otherwise it raises.
C5_NoSilentPartialSuccess ==
    (ret.op = "rebuild" /\ ReadableAt(ret.folder))
        => /\ ret.res.outcome \in {"return", "raise"}
           /\ (ret.res.outcome = "return") <=> AllChecksPass(ret.folder)
           /\ (ret.res.outcome = "return")
                 => LET mf == read_manifest(fs, ret.folder).mf
                    IN  /\ fs[OutPath].bytes = ConcatRaw(ret.folder, mf.chunks)
                        /\ Len(fs[OutPath].bytes) = mf.size_file_raw
                        /\ sha256_hex(fs[OutPath].bytes) = mf.sha256_file_raw

\* rebuild returned for an edited chunk set of several chunks
C5_Witness ==
    /\ ReturnedFrom("rebuild") /\ chunked.done
    /\ edits.n >= 1
    /\ Len(chunked.mf.chunks) >= 2
    /\ AllChecksPass(ret.folder)

RECURSIVE SumSizeRaw(_)
SumSizeRaw(chunks) ==
    IF chunks = <<>> THEN 0 ELSE Head(chunks).size_raw + SumSizeRaw(Tail(chunks))

\* C6: the manifest chunk_file writes lists indices 0..N-1 in ascending order,
\* every entry but the last has size_raw = chunk_size, the last has
\* 1..chunk_size bytes, and the sizes add up to size_file_raw, the length of
\* the source file that was read.
C6_ManifestIntegrity ==
    ReturnedFrom("chunk_file")
        => /\ ReadableAt(ret.folder)
           /\ LET mf == read_manifest(fs, ret.folder).mf
                  N  == Len(mf.chunks)
              IN  /\ \A i \in 1 .. N : mf.chunks[i].index = i - 1
                  /\ \A i \in 1 .. N - 1 : mf.chunks[i].size_raw = chunked.chunk_size
                  /\ N >= 1 => /\ mf.chunks[N].size_raw >= 1
                               /\ mf.chunks[N].size_raw <= chunked.chunk_size
                  /\ SumSizeRaw(mf.chunks) = mf.size_file_raw
                  /\ mf.size_file_raw = Len(chunked.srcBytes)

\* a manifest of several chunks whose last chunk is short
C6_Witness ==
    /\ ReturnedFrom("chunk_file")
    /\ LET mf == read_manifest(fs, ret.folder).mf
       IN  /\ Len(mf.chunks) >= 2
           /\ mf.chunks[Len(mf.chunks)].size_raw < chunked.chunk_size

\* C7: whenever the manifest can be read and parsed, stats returns its record,
\* whatever the state of the chunk files.
C7_StatsNeverFails ==
    (ret.op = "stats" /\ ReadableAt(ret.folder)) => ret.res.outcome = "return"

\* the first check the chunk of entry c fails, "" when it passes them all
FirstFailure(folder, c) ==
    IF ~Exists(fs, Path(folder, c.filename)) THEN "missing"
    ELSE LET payload == fs[Path(folder, c.filename)].bytes
             d       == decompress(payload, c.stored_as)
         IN  IF sha256_hex(payload) # c.sha256_stored THEN "stored_hash"
             ELSE IF ~d.ok THEN "decode"
             ELSE IF Len(d.raw) # c.size_raw THEN "raw_size"
             ELSE IF sha256_hex(d.raw) # c.sha256_raw THEN "raw_hash"
             ELSE ""

\* C8: verify examines the entries in ascending index order and stops at the
\* first failing check: a chunk-level reason is the earliest failing check of
\* the lowest-index failing chunk, and no chunk with a lower index fails.
C8_AscendingFailFast ==
    (ret.op = "verify" /\ ReadableAt(ret.folder) /\ ret.res.outcome = "return")
        => LET mf       == read_manifest(fs, ret.folder).mf
               examined == ret.res.examined
               failing  == {i \in 1 .. Len(mf.chunks) : FirstFailure(ret.folder, mf.chunks[i]) # ""}
           IN  /\ \A j \in 1 .. Len(examined) - 1 : examined[j] < examined[j + 1]
               /\ failing # {}
                     => \E i \in failing :
                           /\ \A j \in failing : mf.chunks[i].index <= mf.chunks[j].index
                           /\ ~ret.res.ok
                           /\ ret.res.reason.check = FirstFailure(ret.folder, mf.chunks[i])
                           /\ ret.res.reason.check = "missing"
                                 => ret.res.reason.filename = mf.chunks[i].filename
                           /\ ret.res.reason.check # "missing"
                                 => ret.res.reason.index = mf.chunks[i].index
               /\ failing = {} => ret.res.reason.check \in {"", "total_size", "file_hash"}

\* the paths chunk_file may create or overwrite: the chunk files and the manifest
ChunkSetPaths(folder, mf) ==
    {Path(folder, mf.chunks[i].filename) : i \in 1 .. Len(mf.chunks)}
        \cup {ManifestPath(folder)}

\* C9: after chunk_file returns the source file holds the bytes it held before
\* the call, and nothing but the chunk files and the manifest was created or
\* overwritten.
C9_SourceUntouched ==
    ReturnedFrom("chunk_file")
        => /\ Exists(fs, chunked.src)
           /\ fs[chunked.src].kind = "bytes"
           /\ fs[chunked.src].bytes = chunked.srcBytes
           /\ DOMAIN fs \subseteq DOMAIN ret.res.before
                                     \cup ChunkSetPaths(chunked.folder, chunked.mf)

\* floor of num / den, den > 0
Floor(num, den) == num \div den

\* C10: compress_conditional returns an empty chunk as (raw, unchanged), and a
\* non-empty one compressed exactly when
\* compressed_len <= floor(raw_len * (1 - min_gain_ratio)), raw otherwise.
C10_GainBoundary ==
    cc.called
        => IF cc.raw = <<>>
           THEN cc.res = [stored_as |-> "raw", payload |-> <<>>]
           ELSE LET comp      == gzip_compress(cc.raw, cc.level)
                    threshold == Floor(Len(cc.raw) * (GainDen - cc.gain), GainDen)
                IN  IF Len(comp) <= threshold
                    THEN cc.res = [stored_as |-> "gzip", payload |-> comp]
                    ELSE cc.res = [stored_as |-> "raw", payload |-> cc.raw]

\* a chunk whose compressed size is exactly the threshold, stored compressed
C10_Witness ==
    /\ cc.called
    /\ cc.raw # <<>>
    /\ cc.gain > 0
    /\ Len(gzip_compress(cc.raw, cc.level))
          = Floor(Len(cc.raw) * (GainDen - cc.gain), GainDen)
    /\ cc.res.stored_as = "gzip"

====
